---- MODULE Spec2Model ----
(***************************************************************************)
(* A model of lib/fs-traverse.js: recursive traversal of a directory tree  *)
(* in a concurrent (callback) mode and a sequential (blocking) mode, with  *)
(* the eachFile / eachFileMatching / readEachFileMatching layers on top.   *)
(*                                                                         *)
(* Strings are sequences of one-character strings, so that path joining    *)
(* and pattern matching are computed as the code computes them.            *)
(* One behaviour is one program run: the blocking call runs first (a       *)
(* blocking call runs to completion before any callback is delivered),     *)
(* then the callback variant is called on the same file system and its     *)
(* results are delivered in an arbitrary order.                            *)
(***************************************************************************)
EXTENDS Integers, Sequences, FiniteSets, TLC

\* ------------------------------------------------------------------ bounds
\* Largest number of entries (root included) of an enumerated directory tree.
MaxNodes == 2
\* Largest number of stat / readdir / readFile operations that fail.
MaxFailures == 1

\* ----------------------------------------------------------------- strings
SEP == "/"

NameA == <<"a", ".", "t">>
NameB == <<"b", ".", "t">>
NameC == <<"c", ".", "l">>
NameS == <<"s">>
\* The child names a listing can return, in listing order.
NameOrder == <<NameA, NameB, NameC, NameS>>
AllNames == {NameOrder[i] : i \in DOMAIN NameOrder}
\* The names of the enumerated trees.
Names == {NameA, NameB}

RECURSIVE Segments(_)
\* The components of a path string, as the file system resolves it: runs of
\* separators count as one, a trailing separator is ignored.
Segments(s) ==
  IF s = <<>> THEN <<>>
  ELSE IF Head(s) = SEP THEN Segments(Tail(s))
  ELSE LET n == CHOOSE k \in 1..Len(s) :
                  /\ \A j \in 1..k : s[j] # SEP
                  /\ (k = Len(s) \/ s[k + 1] = SEP)
       IN  <<SubSeq(s, 1, n)>> \o Segments(SubSeq(s, n + 1, Len(s)))

\* dir.replace(/\/$/, ''): at most one trailing separator is removed.
StripTrailingSep(dir) ==
  IF Len(dir) > 0 /\ dir[Len(dir)] = SEP
  THEN SubSeq(dir, 1, Len(dir) - 1)
  ELSE dir

\* Mutant: the parent's trailing separator is kept.
fullFilePathNoStrip(dir, file) == dir \o <<SEP>> \o file

\* fullFilePath of eachFileOrDirectory.
fullFilePath(dir, file) == StripTrailingSep(dir) \o <<SEP>> \o file

\* fullFilePath of eachFileOrDirectorySync.
fullFilePathSync(dir, file) == StripTrailingSep(dir) \o <<SEP>> \o file

\* ----------------------------------------------------------- regular expressions
\* A pattern is a literal, optionally anchored at the end of the string ($),
\* optionally with the global flag. RegExp.prototype.test of a global pattern
\* starts searching at lastIndex and leaves lastIndex after the match (0 when
\* there is none); without the flag lastIndex is neither read nor written.
Patterns ==
  { [lit |-> <<".", "t">>, atEnd |-> TRUE,  global |-> FALSE],
    [lit |-> <<".", "t">>, atEnd |-> TRUE,  global |-> TRUE],
    [lit |-> <<"b">>,      atEnd |-> FALSE, global |-> FALSE] }

MatchStarts(re, s, from) ==
  { i \in from..(Len(s) - Len(re.lit)) :
      /\ SubSeq(s, i + 1, i + Len(re.lit)) = re.lit
      /\ (re.atEnd => i + Len(re.lit) = Len(s)) }

Min(S) == CHOOSE x \in S : \A y \in S : x <= y

\* expression.test(file): [result, lastIndex].
RegExpTest(re, lastIndex, s) ==
  LET from   == IF re.global THEN lastIndex ELSE 0
      starts == MatchStarts(re, s, from)
  IN  IF starts = {}
      THEN [result |-> FALSE, lastIndex |-> 0]
      ELSE [result |-> TRUE,
            lastIndex |-> IF re.global THEN Min(starts) + Len(re.lit) ELSE lastIndex]

\* The stateless meaning of a pattern: does the string contain a match.
Matches(re, s) == MatchStarts(re, s, 0) # {}

\* ------------------------------------------------------------- file system
\* An entry is the sequence of names leading to it from the tree's root.
Parent(node) == SubSeq(node, 1, Len(node) - 1)

RECURSIVE NodeSets(_)
\* The prefix-closed sets of at most n entries, the root <<>> among them.
NodeSets(n) ==
  IF n <= 1 THEN {{<<>>}}
  ELSE LET smaller == NodeSets(n - 1)
       IN  smaller \cup
             UNION { { s \cup {Append(p, x)} : p \in s, x \in Names } : s \in smaller }

\* Directory trees of at most MaxNodes entries: every entry that has children
\* is a directory, a leaf is a file or an empty directory.
Trees ==
  UNION { LET inner == {Parent(n) : n \in s \ {<<>>}}
          IN  { [nodes |-> s, dirs |-> inner \cup d] : d \in SUBSET (s \ inner) }
          : s \in {x \in NodeSets(MaxNodes) : Cardinality(x) <= MaxNodes} }

\* The tree root/{a.txt, sub/{b.txt, c.log}}, with the names shortened to
\* a.t, s, b.t and c.l.
ScenarioTree ==
  [ nodes |-> {<<>>, <<NameA>>, <<NameS>>, <<NameS, NameB>>, <<NameS, NameC>>},
    dirs  |-> {<<>>, <<NameS>>} ]

\* The failing operations of a run: at most MaxFailures of them.
Failures(t) ==
  { f \in [stat : SUBSET t.nodes, readdir : SUBSET t.dirs,
           readFile : SUBSET (t.nodes \ t.dirs)] :
      Cardinality(f.stat) + Cardinality(f.readdir) + Cardinality(f.readFile)
        <= MaxFailures }

\* ------------------------------------------------------------------- state
VARIABLES
  fs,            \* the directory tree and its failing operations (never changes)
  args,          \* the call's arguments: api, path, expression (never changes)
  \* eachFileOrDirectory's session
  pc,            \* "idle", "running", or "crashed" after an uncaught exception
  filesToCheck,
  checkedFiles,
  checkedStats,
  layers,        \* the files / stats / contents lists of the wrappers, and lastIndex
  inflight,      \* the fs.stat, fs.readdir and fs.readFile calls awaiting their result
  calls,         \* the invocations of the caller's callback and completeHandler, in order
  delivered,     \* history: the operations whose result has been delivered
  \* eachFileOrDirectorySync's session
  sPc,           \* "idle", "running", "returned" or "thrown"
  sStack,        \* the paths the pending forEach iterations will visit, nearest first
  sCheckedFiles,
  sCheckedStats,
  sLayers,
  sCalls,
  sThrown,       \* the exception that left the blocking call
  sReturn,       \* what the blocking call returned to its caller
  \* one application of the path join
  join,          \* the parent path, the child name and the child paths computed
  \* two calls of eachFileOrDirectory made by one program
  sessions,      \* per call: position, checkedFiles, checkedStats, awaited, invocations
  counters       \* the filesToCheck variables

inputs    == <<fs, args>>
asyncVars == <<pc, filesToCheck, checkedFiles, checkedStats, layers, inflight, calls,
               delivered>>
syncVars  == <<sPc, sStack, sCheckedFiles, sCheckedStats, sLayers, sCalls, sThrown,
               sReturn>>
otherVars == <<join, sessions, counters>>
vars      == <<inputs, asyncVars, syncVars, otherVars>>

\* Error-first callbacks: the error argument is Null or an error object.
Null == [code |-> "null"]
IOError(syscall, path) == [code |-> "EIO", syscall |-> syscall, path |-> path]
TypeError == [code |-> "TypeError"]

\* What a call has handed back: nothing yet, or the value undefined.
Pending == [type |-> "pending"]
Undefined == [type |-> "undefined"]

NoLayers ==
  [ efFiles |-> <<>>, efStats |-> <<>>,
    mFiles |-> <<>>, mStats |-> <<>>, lastIndex |-> 0,
    rFiles |-> <<>>, rStats |-> <<>>, rContents |-> <<>> ]

\* ---------------------------------------------------- the storage collaborator
\* The tree's root directory is the directory "r" and also the current directory.
RootNames == {<<"r">>, <<".">>}

Exists(path) ==
  LET segs == Segments(path)
  IN  segs # <<>> /\ Head(segs) \in RootNames /\ Tail(segs) \in fs.nodes

NodeOf(path) == Tail(Segments(path))

Stat(node) == [isDirectory |-> node \in fs.dirs, ino |-> node]
Content(node) == [bytes |-> node]

StatOK(path) == Exists(path) /\ NodeOf(path) \notin fs.fail.stat
ReaddirOK(path) ==
  Exists(path) /\ NodeOf(path) \in fs.dirs /\ NodeOf(path) \notin fs.fail.readdir
ReadFileOK(path) ==
  Exists(path) /\ NodeOf(path) \notin fs.dirs /\ NodeOf(path) \notin fs.fail.readFile

\* The child names (not full paths) of a directory, in listing order.
Listing(path) ==
  SelectSeq(NameOrder, LAMBDA x : Append(NodeOf(path), x) \in fs.nodes)

\* Mutant: the loop over the listing stops one child short.
ChildPathsSkipLast(dir) ==
  LET files == Listing(dir)
  IN  IF files = <<>> THEN <<>>
      ELSE [i \in 1..(Len(files) - 1) |-> StripTrailingSep(dir) \o <<SEP>> \o files[i]]

\* files.forEach in onDirectory: the full paths of the children, in order.
ChildPaths(dir) ==
  LET files == Listing(dir)
  IN  [i \in 1..Len(files) |-> fullFilePath(dir, files[i])]

\* files.forEach in onDirectory of eachFileOrDirectorySync.
ChildPathsSync(dir) ==
  LET files == Listing(dir)
  IN  [i \in 1..Len(files) |-> fullFilePathSync(dir, files[i])]

\* ------------------------------------------------- the callbacks, callback mode
\* A callback run is a record R: the wrappers' lists, the caller's invocations,
\* the fs.readFile calls it issued, and whether an exception escaped it. Each
\* operator below is one function of the source applied to R.

\* The caller's per-entry callback: (err), (null, file, stat) or
\* (null, file, stat, content).
callback(R, call) == [R EXCEPT !.calls = Append(@, call)]

EntryError(err) == [ev |-> "entry", err |-> err]
Entry(file, stat) == [ev |-> "entry", err |-> Null, file |-> file, stat |-> stat]
EntryContent(file, stat, content) ==
  [ev |-> "entry", err |-> Null, file |-> file, stat |-> stat, content |-> content]

\* Mutant: the read's callback reports the error and goes on to push.
readFileCallbackPushesOnError(R, err, file, stat, content) ==
  LET R1 == IF err # Null THEN callback(R, EntryError(err)) ELSE R
      R2 == [R1 EXCEPT !.layers.rFiles = Append(@, file),
                       !.layers.rContents = Append(@, content),
                       !.layers.rStats = Append(@, stat)]
  IN  callback(R2, EntryContent(file, stat, content))

\* The function(err, content) readEachFileMatching hands to fs.readFile, for
\* the file and stat of the invocation that issued the read.
readFileCallback(R, err, file, stat, content) ==
  IF err # Null
  THEN callback(R, EntryError(err))
  ELSE callback([R EXCEPT !.layers.rFiles = Append(@, file),
                          !.layers.rContents = Append(@, content),
                          !.layers.rStats = Append(@, stat)],
                EntryContent(file, stat, content))

\* Mutant: the read's callback pushes the metadata of the first matched file
\* instead of the metadata its own invocation was given.
readEachFileMatchingEntryFirstStat(R, err, file, stat) ==
  IF err # Null
  THEN [R EXCEPT !.threw = TRUE]
  ELSE [R EXCEPT !.reads = @ \cup {[op |-> "readFile", path |-> file,
                                    stat |-> Head(R.layers.mStats)]}]

\* readEachFileMatching's function(err, file, stat): it does not look at err
\* and calls fs.readFile(file, ...). With an error report file is undefined and
\* fs.readFile throws a TypeError to its caller.
readEachFileMatchingEntry(R, err, file, stat) ==
  IF err # Null
  THEN [R EXCEPT !.threw = TRUE]
  ELSE [R EXCEPT !.reads = @ \cup {[op |-> "readFile", path |-> file, stat |-> stat]}]

\* The callback eachFileMatching was given.
eachFileMatchingCallback(R, err, file, stat) ==
  IF args.api = "readEachFileMatching"
  THEN readEachFileMatchingEntry(R, err, file, stat)
  ELSE callback(R, IF err # Null THEN EntryError(err) ELSE Entry(file, stat))

\* eachFileMatching's function(err, file, stat).
eachFileMatchingEntry(R, err, file, stat) ==
  IF err # Null
  THEN eachFileMatchingCallback(R, err, file, stat)
  ELSE LET t  == RegExpTest(args.expression, R.layers.lastIndex, file)
           R1 == [R EXCEPT !.layers.lastIndex = t.lastIndex]
       IN  IF t.result
           THEN eachFileMatchingCallback(
                  [R1 EXCEPT !.layers.mFiles = Append(@, file),
                             !.layers.mStats = Append(@, stat)],
                  Null, file, stat)
           ELSE R1

\* The callback eachFile was given.
eachFileCallback(R, err, file, stat) ==
  IF args.api = "eachFile"
  THEN callback(R, IF err # Null THEN EntryError(err) ELSE Entry(file, stat))
  ELSE eachFileMatchingEntry(R, err, file, stat)

\* Mutant: eachFile forwards directories as well.
eachFileEntryAll(R, err, file, stat) ==
  IF err # Null
  THEN eachFileCallback(R, err, file, stat)
  ELSE eachFileCallback(
         [R EXCEPT !.layers.efFiles = Append(@, file),
                   !.layers.efStats = Append(@, stat)],
         Null, file, stat)

\* eachFile's function(err, file, stat).
eachFileEntry(R, err, file, stat) ==
  IF err # Null
  THEN eachFileCallback(R, err, file, stat)
  ELSE IF ~stat.isDirectory
       THEN eachFileCallback(
              [R EXCEPT !.layers.efFiles = Append(@, file),
                        !.layers.efStats = Append(@, stat)],
              Null, file, stat)
       ELSE R

\* Mutant: directories are not handed to the fileHandler.
fileHandlerSkipsDirectories(R, err, file, stat) ==
  IF err = Null /\ stat.isDirectory
  THEN R
  ELSE IF args.api = "eachFileOrDirectory"
  THEN callback(R, IF err # Null THEN EntryError(err) ELSE Entry(file, stat))
  ELSE eachFileEntry(R, err, file, stat)

\* The fileHandler eachFileOrDirectory was given.
fileHandler(R, err, file, stat) ==
  IF args.api = "eachFileOrDirectory"
  THEN callback(R, IF err # Null THEN EntryError(err) ELSE Entry(file, stat))
  ELSE eachFileEntry(R, err, file, stat)

\* The completion handlers: each wrapper's function(err) hands its own lists
\* to the completeHandler it was given.
Complete(err, files, stats) ==
  [ev |-> "complete", err |-> err, files |-> files, stats |-> stats]
CompleteContents(err, files, stats, contents) ==
  [ev |-> "complete", err |-> err, files |-> files, stats |-> stats,
   contents |-> contents]
CompleteError(err) == [ev |-> "complete", err |-> err]

readEachFileMatchingComplete(R, err) ==
  IF err # Null
  THEN callback(R, CompleteError(err))
  ELSE callback(R, CompleteContents(err, R.layers.rFiles, R.layers.rStats,
                                    R.layers.rContents))

eachFileMatchingComplete(R, err) ==
  LET up(e) == IF args.api = "readEachFileMatching"
               THEN readEachFileMatchingComplete(R, e)
               ELSE callback(R, IF e # Null THEN CompleteError(e)
                                ELSE Complete(e, R.layers.mFiles, R.layers.mStats))
  IN  IF err # Null THEN up(err) ELSE up(Null)

eachFileComplete(R, err) ==
  LET up(e) == IF args.api = "eachFile"
               THEN callback(R, IF e # Null THEN CompleteError(e)
                                ELSE Complete(e, R.layers.efFiles, R.layers.efStats))
               ELSE eachFileMatchingComplete(R, e)
  IN  IF err # Null THEN up(err) ELSE up(Null)

\* The completeHandler eachFileOrDirectory was given, called with
\* (err, checkedFiles, checkedStats).
completeHandler(R, err, files, stats) ==
  IF args.api = "eachFileOrDirectory"
  THEN callback(R, Complete(err, files, stats))
  ELSE eachFileComplete(R, err)

\* Mutant: the completion test is off by one.
checkCompleteFiresEarly(n) == n <= 1

\* checkComplete: if (filesToCheck === 0) completeHandler(null, ...).
checkCompleteFires(n) == n = 0

\* Mutant: the completion handler is handed the lists without their last entry.
checkCompleteDropsLast(R, n, files, stats) ==
  IF checkCompleteFires(n)
  THEN completeHandler(R, Null, SubSeq(files, 1, Len(files) - 1),
                       SubSeq(stats, 1, Len(stats) - 1))
  ELSE R

checkComplete(R, n, files, stats) ==
  IF checkCompleteFires(n) THEN completeHandler(R, Null, files, stats) ELSE R

\* ------------------------------------------------------------ initial state
\* directory = (directory) ? directory : './'
DefaultDirectory == <<".", SEP>>
Directory(path) == IF path = <<>> THEN DefaultDirectory ELSE path

\* The path argument: a root named explicitly, or omitted.
Paths == {<<"r">>, <<>>}

ArgSets ==
  { [api |-> a, path |-> p] : a \in {"eachFileOrDirectory", "eachFile"}, p \in Paths }
  \cup
  { [api |-> a, path |-> p, expression |-> e] :
      a \in {"eachFileMatching", "readEachFileMatching"}, p \in Paths, e \in Patterns }

FileSystems ==
  UNION { { [nodes |-> t.nodes, dirs |-> t.dirs, fail |-> f] : f \in Failures(t) }
          : t \in Trees \cup {ScenarioTree} }

\* No path join is under study.
NoJoin == [dir |-> <<>>, file |-> <<>>, path |-> Pending, pathSync |-> Pending]

\* No call has been made yet.
NotCalled ==
  /\ pc = "idle"
  /\ filesToCheck = 0
  /\ checkedFiles = <<>>
  /\ checkedStats = <<>>
  /\ layers = NoLayers
  /\ inflight = {}
  /\ calls = <<>>
  /\ delivered = {}
  /\ sPc = "idle"
  /\ sStack = <<>>
  /\ sCheckedFiles = <<>>
  /\ sCheckedStats = <<>>
  /\ sLayers = NoLayers
  /\ sCalls = <<>>
  /\ sThrown = Null
  /\ sReturn = Pending

\* The calls of a program that calls eachFileOrDirectory twice.
SessionIds == {"s1", "s2"}

\* var filesToCheck = 0, checkedFiles = [], checkedStats = [] of a call that
\* has not been made.
NoSession ==
  [ pc |-> "idle", checkedFiles |-> <<>>, checkedStats |-> <<>>, inflight |-> {},
    calls |-> <<>>, delivered |-> {} ]

NoSessions ==
  /\ sessions = [s \in SessionIds |-> NoSession]
  /\ counters = [s \in SessionIds |-> 0]

Init ==
  /\ fs \in FileSystems
  /\ args \in ArgSets
  /\ fs.fail.readFile # {} => args.api = "readEachFileMatching"
  /\ NotCalled
  /\ join = NoJoin
  /\ NoSessions

\* ------------------------------------------------------ callback mode, actions
StatOp(path) == [op |-> "stat", path |-> path]
ReaddirOp(path) == [op |-> "readdir", path |-> path]

Run0 == [layers |-> layers, calls |-> calls, reads |-> {}, threw |-> FALSE]

\* filesToCheck++ in onFileOrDirectory, before fs.stat is issued.
onFileOrDirectoryCount(n) == n + 1

\* Mutant: onDirectory issues fs.readdir without counting it.
onDirectoryCountMissing(n) == n

\* filesToCheck++ in onDirectory, before fs.readdir is issued.
onDirectoryCount(n) == n + 1

\* What one callback run leaves behind. An exception that escapes a callback
\* is uncaught: the process ends and no further result is delivered.
Settle(R, n, issued, o) ==
  /\ layers' = R.layers
  /\ calls' = R.calls
  /\ filesToCheck' = n
  /\ inflight' = (inflight \ {o}) \cup R.reads \cup issued
  /\ delivered' = delivered \cup {o}
  /\ pc' = IF R.threw THEN "crashed" ELSE pc

\* The call itself: eachFileOrDirectory(directory, ...) ends with
\* onFileOrDirectory(directory), which counts and issues the first fs.stat.
CallAsync ==
  /\ pc = "idle"
  /\ sPc \in {"returned", "thrown"}
  /\ pc' = "running"
  /\ filesToCheck' = onFileOrDirectoryCount(filesToCheck)
  /\ inflight' = {StatOp(Directory(args.path))}
  /\ UNCHANGED <<inputs, otherVars, checkedFiles, checkedStats, layers, calls, delivered, syncVars>>

\* The callback of fs.stat in onFileOrDirectory.
StatResult(o) ==
  /\ pc = "running"
  /\ o \in inflight
  /\ o.op = "stat"
  /\ LET n == filesToCheck - 1
     IN  IF ~StatOK(o.path)
         THEN /\ Settle(fileHandler(Run0, IOError("stat", o.path), <<>>, Null), n, {}, o)
              /\ UNCHANGED <<checkedFiles, checkedStats>>
         ELSE LET stat  == Stat(NodeOf(o.path))
                  files == Append(checkedFiles, o.path)
                  stats == Append(checkedStats, stat)
                  R     == fileHandler(Run0, Null, o.path, stat)
              IN  /\ checkedFiles' = files
                  /\ checkedStats' = stats
                  /\ IF R.threw THEN Settle(R, n, {}, o)
                     ELSE IF stat.isDirectory
                     THEN \* onDirectory(fileOrDirectory)
                          Settle(R, onDirectoryCount(n), {ReaddirOp(o.path)}, o)
                     ELSE Settle(checkComplete(R, n, files, stats), n, {}, o)
  /\ UNCHANGED <<inputs, otherVars, syncVars>>

\* The callback of fs.readdir in onDirectory.
ReaddirResult(o) ==
  /\ pc = "running"
  /\ o \in inflight
  /\ o.op = "readdir"
  /\ LET n == filesToCheck - 1
     IN  IF ~ReaddirOK(o.path)
         THEN Settle(fileHandler(Run0, IOError("readdir", o.path), <<>>, Null), n, {}, o)
         ELSE LET children == ChildPaths(o.path)
                  count[i \in 0..Len(children)] ==
                    IF i = 0 THEN n ELSE onFileOrDirectoryCount(count[i - 1])
                  m        == count[Len(children)]
              IN  Settle(checkComplete(Run0, m, checkedFiles, checkedStats), m,
                         {StatOp(children[i]) : i \in DOMAIN children}, o)
  /\ UNCHANGED <<inputs, otherVars, checkedFiles, checkedStats, syncVars>>

\* The callback of fs.readFile in readEachFileMatching.
ReadFileResult(o) ==
  /\ pc = "running"
  /\ o \in inflight
  /\ o.op = "readFile"
  /\ IF ~ReadFileOK(o.path)
     THEN Settle(readFileCallback(Run0, IOError("readFile", o.path), o.path, o.stat,
                                  Undefined),
                 filesToCheck, {}, o)
     ELSE Settle(readFileCallback(Run0, Null, o.path, o.stat, Content(NodeOf(o.path))),
                 filesToCheck, {}, o)
  /\ UNCHANGED <<inputs, otherVars, checkedFiles, checkedStats, syncVars>>

\* ------------------------------------------------- the callbacks, blocking mode
\* A blocking run is a record S: the session's lists, the caller's
\* invocations, the pending iterations, the exception that left the call and
\* the value the call returned.

\* readEachFileMatchingSync's function(err, file, stat): fs.readFileSync raises
\* on failure, and nothing catches it.
readEachFileMatchingSyncEntry(S, err, file, stat) ==
  IF err # Null
  THEN [S EXCEPT !.thrown = TypeError]
  ELSE IF ~ReadFileOK(file)
  THEN [S EXCEPT !.thrown = IOError("readFile", file)]
  ELSE LET content == Content(NodeOf(file))
       IN  [S EXCEPT !.layers.rFiles = Append(@, file),
                     !.layers.rContents = Append(@, content),
                     !.layers.rStats = Append(@, stat),
                     !.calls = Append(@, EntryContent(file, stat, content))]

eachFileMatchingSyncCallback(S, err, file, stat) ==
  IF args.api = "readEachFileMatching"
  THEN readEachFileMatchingSyncEntry(S, err, file, stat)
  ELSE callback(S, IF err # Null THEN EntryError(err) ELSE Entry(file, stat))

\* eachFileMatchingSync's function(err, file, stat).
eachFileMatchingSyncEntry(S, err, file, stat) ==
  IF err # Null
  THEN eachFileMatchingSyncCallback(S, err, file, stat)
  ELSE LET t  == RegExpTest(args.expression, S.layers.lastIndex, file)
           S1 == [S EXCEPT !.layers.lastIndex = t.lastIndex]
       IN  IF t.result
           THEN eachFileMatchingSyncCallback(
                  [S1 EXCEPT !.layers.mFiles = Append(@, file),
                             !.layers.mStats = Append(@, stat)],
                  Null, file, stat)
           ELSE S1

eachFileSyncCallback(S, err, file, stat) ==
  IF args.api = "eachFile"
  THEN callback(S, IF err # Null THEN EntryError(err) ELSE Entry(file, stat))
  ELSE eachFileMatchingSyncEntry(S, err, file, stat)

\* eachFileSync's function(err, file, stat).
eachFileSyncEntry(S, err, file, stat) ==
  IF err # Null
  THEN eachFileSyncCallback(S, err, file, stat)
  ELSE IF ~stat.isDirectory
       THEN eachFileSyncCallback(
              [S EXCEPT !.layers.efFiles = Append(@, file),
                        !.layers.efStats = Append(@, stat)],
              Null, file, stat)
       ELSE S

\* The fileHandler eachFileOrDirectorySync was given.
fileHandlerSync(S, err, file, stat) ==
  IF args.api = "eachFileOrDirectory"
  THEN callback(S, IF err # Null THEN EntryError(err) ELSE Entry(file, stat))
  ELSE eachFileSyncEntry(S, err, file, stat)

\* Mutant: the exception is caught around the iteration and the loop goes on.
RaiseCaught(S, err) ==
  [S EXCEPT !.thrown = err, !.stack = Tail(S.stack),
            !.pc = IF Tail(S.stack) = <<>> THEN "returned" ELSE "running"]

\* An exception raised by fs.statSync, fs.readdirSync or the fileHandler:
\* nothing in the call catches it, so it leaves every pending forEach
\* iteration and the call.
Raise(S, err) == [S EXCEPT !.pc = "thrown", !.stack = <<>>, !.thrown = err]

\* onDirectory_ has no return statement.
onDirectoryReturn == Undefined

\* onFileOrDirectory_ returns onDirectory(...) for a directory and falls off
\* its end otherwise.
onFileOrDirectoryReturn(stat) ==
  IF stat.isDirectory THEN onDirectoryReturn ELSE Undefined

\* return onFileOrDirectory(directory): what eachFileOrDirectorySync returns,
\* and with it eachFileSync, eachFileMatchingSync and readEachFileMatchingSync,
\* each of which returns the result of the call it wraps.
eachFileOrDirectorySyncReturn(S) == onFileOrDirectoryReturn(S.checkedStats[1])

\* One onFileOrDirectory(fileOrDirectory) of eachFileOrDirectorySync: the
\* nearest pending path is probed and reported and, for a directory, listed
\* (onDirectory); the children become the nearest pending iterations.
onFileOrDirectorySync(S) ==
  LET fileOrDirectory == Head(S.stack)
      rest == Tail(S.stack)
      Continue(T, stack) ==
        [T EXCEPT !.stack = stack,
                  !.pc = IF stack = <<>> THEN "returned" ELSE "running",
                  !.ret = IF stack = <<>> THEN eachFileOrDirectorySyncReturn(T)
                          ELSE T.ret]
  IN  IF ~StatOK(fileOrDirectory)
      THEN Raise(S, IOError("stat", fileOrDirectory))
      ELSE LET stat == Stat(NodeOf(fileOrDirectory))
               S1 == fileHandlerSync(
                       [S EXCEPT !.checkedFiles = Append(@, fileOrDirectory),
                                 !.checkedStats = Append(@, stat)],
                       Null, fileOrDirectory, stat)
           IN  IF S1.thrown # Null THEN Raise(S1, S1.thrown)
               ELSE IF ~stat.isDirectory THEN Continue(S1, rest)
               ELSE IF ~ReaddirOK(fileOrDirectory)
               THEN Raise(S1, IOError("readdir", fileOrDirectory))
               ELSE Continue(S1, ChildPathsSync(fileOrDirectory) \o rest)

\* ------------------------------------------------------ blocking mode, actions
SyncSession ==
  [ pc |-> sPc, stack |-> sStack, checkedFiles |-> sCheckedFiles,
    checkedStats |-> sCheckedStats, layers |-> sLayers, calls |-> sCalls,
    thrown |-> sThrown, ret |-> sReturn ]

SetSync(S) ==
  /\ sPc' = S.pc
  /\ sStack' = S.stack
  /\ sCheckedFiles' = S.checkedFiles
  /\ sCheckedStats' = S.checkedStats
  /\ sLayers' = S.layers
  /\ sCalls' = S.calls
  /\ sThrown' = S.thrown
  /\ sReturn' = S.ret

\* The call: eachFileOrDirectorySync(directory, ...) starts at the root.
CallSync ==
  /\ sPc = "idle"
  /\ sPc' = "running"
  /\ sStack' = <<Directory(args.path)>>
  /\ UNCHANGED <<inputs, otherVars, asyncVars, sCheckedFiles, sCheckedStats, sLayers, sCalls,
                 sThrown, sReturn>>

SyncStep ==
  /\ sPc = "running"
  /\ SetSync(onFileOrDirectorySync(SyncSession))
  /\ UNCHANGED <<inputs, otherVars, asyncVars>>

\* ------------------------------------------------------------ specification
Next ==
  \/ CallSync
  \/ SyncStep
  \/ CallAsync
  \/ \E o \in inflight : StatResult(o)
  \/ \E o \in inflight : ReaddirResult(o)
  \/ \E o \in inflight : ReadFileResult(o)

Spec == Init /\ [][Next]_vars

\* --------------------------------------------- the path join, on its own
\* The longest parent path joined.
MaxDirLen == 3

\* The parent paths: the non-empty strings over a name character and the
\* separator (a falsy directory never reaches fullFilePath).
DirStrings == UNION { [1..n -> {"d", SEP}] : n \in 1..MaxDirLen }

InitJoin ==
  /\ fs = [nodes |-> ScenarioTree.nodes, dirs |-> ScenarioTree.dirs,
           fail |-> [stat |-> {}, readdir |-> {}, readFile |-> {}]]
  /\ args = [api |-> "eachFileOrDirectory", path |-> <<>>]
  /\ NotCalled
  /\ join \in { [dir |-> d, file |-> f, path |-> Pending, pathSync |-> Pending] :
                  d \in DirStrings, f \in AllNames }
  /\ NoSessions

\* file = fullFilePath(dir, file) in onDirectory of eachFileOrDirectory.
JoinAsync ==
  /\ join.path = Pending
  /\ join' = [join EXCEPT !.path = fullFilePath(join.dir, join.file)]
  /\ UNCHANGED <<inputs, asyncVars, syncVars, sessions, counters>>

\* file = fullFilePath(dir, file) in onDirectory of eachFileOrDirectorySync.
JoinSync ==
  /\ join.pathSync = Pending
  /\ join' = [join EXCEPT !.pathSync = fullFilePathSync(join.dir, join.file)]
  /\ UNCHANGED <<inputs, asyncVars, syncVars, sessions, counters>>

NextJoin ==
  \/ JoinAsync
  \/ JoinSync

SpecJoin == InitJoin /\ [][NextJoin]_vars

\* ------------------------------------ two calls of eachFileOrDirectory
\* One program calls eachFileOrDirectory twice, on the same tree under its two
\* names, and the results of both calls are delivered in any interleaving.
SessionDirectory(s) == IF s = "s1" THEN <<"r">> ELSE <<>>

\* Mutant: filesToCheck is one variable that every call shares.
filesToCheckShared(s) == "s1"

\* var filesToCheck = 0 inside eachFileOrDirectory: every call has its own.
filesToCheckOf(s) == s

InitTwo ==
  /\ fs \in FileSystems
  /\ fs.fail.readFile = {}
  /\ args = [api |-> "eachFileOrDirectory", path |-> <<>>]
  /\ NotCalled
  /\ join = NoJoin
  /\ NoSessions

\* The state a callback of session E starts from.
SessionRun(E) == [layers |-> NoLayers, calls |-> E.calls, reads |-> {}, threw |-> FALSE]

\* What one callback run of session s leaves behind.
SessionSettle(s, E, R, n, issued, o) ==
  /\ sessions' = [sessions EXCEPT ![s] =
                    [E EXCEPT !.calls = R.calls,
                              !.inflight = (E.inflight \ {o}) \cup issued,
                              !.delivered = E.delivered \cup {o}]]
  /\ counters' = [counters EXCEPT ![filesToCheckOf(s)] = n]

\* The call of session s: onFileOrDirectory(directory) counts and issues the
\* first fs.stat.
CallTwo(s) ==
  /\ sessions[s].pc = "idle"
  /\ sessions' = [sessions EXCEPT ![s] =
                    [@ EXCEPT !.pc = "running",
                              !.inflight = {StatOp(Directory(SessionDirectory(s)))}]]
  /\ counters' = [counters EXCEPT ![filesToCheckOf(s)] = onFileOrDirectoryCount(@)]
  /\ UNCHANGED <<inputs, asyncVars, syncVars, join>>

\* The callback of fs.stat in onFileOrDirectory, in session s.
StatResultTwo(s, o) ==
  /\ sessions[s].pc = "running"
  /\ o \in sessions[s].inflight
  /\ o.op = "stat"
  /\ LET E == sessions[s]
         n == counters[filesToCheckOf(s)] - 1
     IN  IF ~StatOK(o.path)
         THEN SessionSettle(s, E, fileHandler(SessionRun(E), IOError("stat", o.path),
                                              <<>>, Null), n, {}, o)
         ELSE LET stat  == Stat(NodeOf(o.path))
                  files == Append(E.checkedFiles, o.path)
                  stats == Append(E.checkedStats, stat)
                  E1    == [E EXCEPT !.checkedFiles = files, !.checkedStats = stats]
                  R     == fileHandler(SessionRun(E), Null, o.path, stat)
              IN  IF stat.isDirectory
                  THEN SessionSettle(s, E1, R, onDirectoryCount(n),
                                     {ReaddirOp(o.path)}, o)
                  ELSE SessionSettle(s, E1, checkComplete(R, n, files, stats), n, {}, o)
  /\ UNCHANGED <<inputs, asyncVars, syncVars, join>>

\* The callback of fs.readdir in onDirectory, in session s.
ReaddirResultTwo(s, o) ==
  /\ sessions[s].pc = "running"
  /\ o \in sessions[s].inflight
  /\ o.op = "readdir"
  /\ LET E == sessions[s]
         n == counters[filesToCheckOf(s)] - 1
     IN  IF ~ReaddirOK(o.path)
         THEN SessionSettle(s, E, fileHandler(SessionRun(E), IOError("readdir", o.path),
                                              <<>>, Null), n, {}, o)
         ELSE LET children == ChildPaths(o.path)
                  count[i \in 0..Len(children)] ==
                    IF i = 0 THEN n ELSE onFileOrDirectoryCount(count[i - 1])
                  m        == count[Len(children)]
              IN  SessionSettle(s, E,
                                checkComplete(SessionRun(E), m, E.checkedFiles,
                                              E.checkedStats),
                                m, {StatOp(children[i]) : i \in DOMAIN children}, o)
  /\ UNCHANGED <<inputs, asyncVars, syncVars, join>>

NextTwo ==
  \/ \E s \in SessionIds : CallTwo(s)
  \/ \E s \in SessionIds : \E o \in sessions[s].inflight : StatResultTwo(s, o)
  \/ \E s \in SessionIds : \E o \in sessions[s].inflight : ReaddirResultTwo(s, o)

SpecTwo == InitTwo /\ [][NextTwo]_vars

\* ------------------------------------------------------------ observations
\* The positions of the log at which the per-entry callback (an entry or an
\* error report) and the completion handler were invoked.
EntryIdx(log) == {i \in DOMAIN log : log[i].ev = "entry"}
ReportIdx(log) == {i \in EntryIdx(log) : log[i].err = Null}
ErrorIdx(log) == {i \in EntryIdx(log) : log[i].err # Null}
CompleteIdx(log) == {i \in DOMAIN log : log[i].ev = "complete"}

Completed == CompleteIdx(calls) # {}
\* The call has been made and no result is awaited any more.
Quiescent == pc = "running" /\ inflight = {}

EngineOps == {o \in inflight : o.op \in {"stat", "readdir"}}
Failed(o) ==
  \/ o.op = "stat" /\ ~StatOK(o.path)
  \/ o.op = "readdir" /\ ~ReaddirOK(o.path)
  \/ o.op = "readFile" /\ ~ReadFileOK(o.path)
NoFailures == fs.fail.stat = {} /\ fs.fail.readdir = {} /\ fs.fail.readFile = {}
Scenario == fs.nodes = ScenarioTree.nodes /\ fs.dirs = ScenarioTree.dirs

\* ------------------------------------------------------------------ claims

\* C1: in callback mode the completion handler is invoked at most once per
\* session, whatever the tree, the failing operations and the delivery order.
C1_CompletionAtMostOnce == Cardinality(CompleteIdx(calls)) <= 1

\* C1 witness: eachFileOrDirectory has completed a walk of the five-entry tree
\* (its results having been delivered in some order), with one invocation.
C1_Witness ==
  /\ args.api = "eachFileOrDirectory"
  /\ Scenario
  /\ Len(checkedFiles) = 5
  /\ Cardinality(CompleteIdx(calls)) = 1

\* C2: once eachFileOrDirectory has been called and no operation is in flight
\* any more, the completion handler has been invoked.
C2_CompletesWhenQuiescent ==
  (args.api = "eachFileOrDirectory" /\ Quiescent) => Completed

\* C3: when the completion handler has been invoked, no stat or readdir is in
\* flight, the root has been probed, every successfully probed directory has
\* had its listing delivered (or fail), and every child of a delivered listing
\* has had its probe delivered (or fail).
C3_CompletionNotPremature ==
  Completed =>
    /\ EngineOps = {}
    /\ StatOp(Directory(args.path)) \in delivered
    /\ \A o \in delivered :
         (o.op = "stat" /\ StatOK(o.path) /\ Stat(NodeOf(o.path)).isDirectory)
           => ReaddirOp(o.path) \in delivered
    /\ \A o \in delivered :
         (o.op = "readdir" /\ ReaddirOK(o.path))
           => \A x \in AllNames :
                Append(NodeOf(o.path), x) \in fs.nodes
                  => \E q \in delivered :
                       q.op = "stat" /\ NodeOf(q.path) = Append(NodeOf(o.path), x)

\* C3 witness: completion after a walk in which a nested directory was
\* expanded and one operation failed.
C3_Witness ==
  /\ Completed
  /\ Scenario
  /\ ReaddirOp(fullFilePath(Directory(args.path), NameS)) \in delivered
  /\ \E o \in delivered : Failed(o)

\* The entries reported to the caller, as entries of the tree.
ReportedNodes(log) == {NodeOf(log[i].file) : i \in ReportIdx(log)}
ReportedPaths(log) == {log[i].file : i \in ReportIdx(log)}
ReportedOnce(log) == Cardinality(ReportedPaths(log)) = Cardinality(ReportIdx(log))

Prefix(node, k) == SubSeq(node, 1, k)
\* The entries no failure cuts off: their own probe succeeds, and so do the
\* probe and the listing of every directory above them.
Survivors ==
  { n \in fs.nodes :
      /\ n \notin fs.fail.stat
      /\ \A k \in 0..(Len(n) - 1) :
           Prefix(n, k) \notin (fs.fail.stat \cup fs.fail.readdir) }

\* C4: when a stat or readdir has failed, the completion handler receives
\* that error and no lists; for a root whose probe fails, once nothing is in
\* flight the completion handler has been invoked with the error.
C4_CompletionReportsError ==
  args.api = "eachFileOrDirectory" =>
    /\ \A i \in CompleteIdx(calls) :
         (\E o \in delivered : Failed(o)) =>
            /\ calls[i].err # Null
            /\ DOMAIN calls[i] = {"ev", "err"}
    /\ (Quiescent /\ ~StatOK(Directory(args.path))) =>
         \E i \in CompleteIdx(calls) :
            calls[i].err = IOError("stat", Directory(args.path))

\* C5: in callback mode a failure is isolated to its branch: each failed stat
\* or readdir is reported to the per-entry handler exactly once, nothing
\* below a failed entry is ever probed or reported, and once nothing is in
\* flight every entry that no failure cuts off has been reported exactly once.
C5_FailureIsolated ==
  args.api = "eachFileOrDirectory" =>
    /\ \A o \in delivered :
         Failed(o) =>
           Cardinality({i \in ErrorIdx(calls) : calls[i].err = IOError(o.op, o.path)}) = 1
    /\ Cardinality(ErrorIdx(calls)) = Cardinality({o \in delivered : Failed(o)})
    /\ \A o \in inflight \cup delivered :
         \A k \in 0..(Len(NodeOf(o.path)) - 1) :
            Prefix(NodeOf(o.path), k) \notin (fs.fail.stat \cup fs.fail.readdir)
    /\ ReportedNodes(calls) \subseteq Survivors
    /\ ReportedOnce(calls)
    /\ Quiescent => ReportedNodes(calls) = Survivors

\* C5 witness: a walk has ended in which one entry's probe failed, its sibling
\* was reported, and the failed entry has something below it in the tree.
C5_Witness ==
  /\ args.api = "eachFileOrDirectory"
  /\ Quiescent
  /\ \E n \in fs.fail.stat :
       /\ Len(n) = 1
       /\ StatOp(fullFilePath(Directory(args.path), n[1])) \in delivered
       /\ \E m \in fs.nodes : Len(m) = 2 /\ Parent(m) = n
       /\ \E m \in ReportedNodes(calls) : Len(m) = 1 /\ m # n
  /\ Cardinality(ErrorIdx(calls)) = 1

\* C6: in blocking mode the first failing stat, readdir or read raises out of
\* the call: once an exception has been raised the call is over, the
\* per-entry handler is never invoked again and nothing more is visited; and
\* a call that returns has met no failure.
C6_SyncAbortsOnFirstFailure ==
  /\ [][sThrown # Null =>
          /\ sPc = "thrown"
          /\ sCalls' = sCalls
          /\ sCheckedFiles' = sCheckedFiles
          /\ sPc' = "thrown"]_vars
  /\ [](sPc = "returned" =>
          /\ sThrown = Null
          /\ \A i \in DOMAIN sCheckedFiles :
               /\ StatOK(sCheckedFiles[i])
               /\ sCheckedStats[i].isDirectory => ReaddirOK(sCheckedFiles[i])
          /\ args.api = "readEachFileMatching" =>
               \A i \in DOMAIN sLayers.mFiles : ReadFileOK(sLayers.mFiles[i]))

\* C6 witness: the blocking call has raised while a later sibling of an
\* already listed directory was still to be visited.
C6_Witness ==
  /\ sPc = "thrown"
  /\ \E n \in fs.nodes \ {<<>>} :
       /\ \A i \in DOMAIN sCheckedFiles : NodeOf(sCheckedFiles[i]) # n
       /\ n \notin fs.fail.stat
       /\ Parent(n) \notin fs.fail.readdir
       /\ \E i \in DOMAIN sCheckedFiles : NodeOf(sCheckedFiles[i]) = Parent(n)
       /\ sThrown # IOError("readdir", fullFilePathSync(Directory(args.path), n[1]))

\* The elements of a list.
Range(seq) == {seq[i] : i \in DOMAIN seq}

\* C7: on a tree without failures the paths eachFileOrDirectory reports, in
\* any delivery order, are the paths eachFileOrDirectorySync reports, each
\* reported exactly once in both modes.
C7_SameVisitedSet ==
  (args.api = "eachFileOrDirectory" /\ NoFailures /\ sPc = "returned" /\ Quiescent) =>
    /\ ReportedPaths(calls) = ReportedPaths(sCalls)
    /\ ReportedOnce(calls)
    /\ ReportedOnce(sCalls)

\* C7 witness: both walks of the five-entry tree are over, the callback walk
\* having reported an entry of the nested directory before a.t.
C7_Witness ==
  /\ args.api = "eachFileOrDirectory"
  /\ NoFailures
  /\ Scenario
  /\ sPc = "returned"
  /\ Quiescent
  /\ Cardinality(ReportedPaths(sCalls)) = 5
  /\ \E i, j \in ReportIdx(calls) :
       i < j /\ Len(NodeOf(calls[i].file)) = 2 /\ NodeOf(calls[j].file) = <<NameA>>

\* C8: on a tree without failures, what eachFileMatching forwards to its
\* callback and hands to its completion handler is exactly the entries of
\* eachFile whose full path matches the pattern, each once.
C8_MatchingIsFilteredEachFile ==
  (args.api = "eachFileMatching" /\ NoFailures /\ Quiescent) =>
    LET expected == {p \in Range(layers.efFiles) : Matches(args.expression, p)}
    IN  /\ ReportedPaths(calls) = expected
        /\ ReportedOnce(calls)
        /\ \A i \in CompleteIdx(calls) :
             /\ Range(calls[i].files) = expected
             /\ Len(calls[i].files) = Cardinality(expected)

\* C9: when readEachFileMatching has invoked its completion handler, no
\* readFile is in flight, the lists it handed over hold every matching file,
\* and the per-entry callback is not invoked afterwards.
C9_ReaderCompletesAfterReads ==
  (args.api = "readEachFileMatching" /\ Completed) =>
    /\ {o \in inflight : o.op = "readFile"} = {}
    /\ \A i \in CompleteIdx(calls) :
         /\ Range(calls[i].files) = Range(layers.mFiles)
         /\ \A j \in EntryIdx(calls) : j < i

\* C10: for eachFileOrDirectory, eachFile and eachFileMatching the per-entry
\* handler is never invoked after the completion handler has been invoked.
C10_NoEntryAfterCompletion ==
  args.api \in {"eachFileOrDirectory", "eachFile", "eachFileMatching"} =>
    \A i \in CompleteIdx(calls) : \A j \in EntryIdx(calls) : j < i

\* C10 witness: eachFileMatching has completed after an error report and
\* after forwarding a matching file.
C10_Witness ==
  /\ args.api = "eachFileMatching"
  /\ Completed
  /\ ErrorIdx(calls) # {}
  /\ ReportIdx(calls) # {}

\* C11: the wrappers forward errors unchanged: for eachFile, eachFileMatching
\* and readEachFileMatching, every failed stat or readdir whose result has
\* been delivered has been handed to the caller's callback exactly once, as
\* that same error, and the reader has attempted no read for it (so no
\* exception has escaped its callback).
C11_LayersForwardErrors ==
  args.api \in {"eachFile", "eachFileMatching", "readEachFileMatching"} =>
    /\ \A o \in delivered :
         (o.op \in {"stat", "readdir"} /\ Failed(o)) =>
           Cardinality({i \in ErrorIdx(calls) : calls[i].err = IOError(o.op, o.path)}) = 1
    /\ pc # "crashed"

\* C12: every entry readEachFileMatching and readEachFileMatchingSync deliver
\* carries the content a direct read of its path gives and the metadata of
\* that path; the files, stats and contents lists (the wrappers' own, and
\* those handed to the completion handler) have the same length and describe
\* the same path at every index, in whatever order the reads complete.
C12_ReaderListsAligned ==
  args.api = "readEachFileMatching" =>
    LET Aligned(files, stats, contents) ==
          /\ Len(stats) = Len(files)
          /\ Len(contents) = Len(files)
          /\ \A i \in DOMAIN files :
               /\ stats[i] = Stat(NodeOf(files[i]))
               /\ contents[i] = Content(NodeOf(files[i]))
        Faithful(log) ==
          \A i \in ReportIdx(log) :
             /\ log[i].content = Content(NodeOf(log[i].file))
             /\ log[i].stat = Stat(NodeOf(log[i].file))
    IN  /\ Faithful(calls)
        /\ Faithful(sCalls)
        /\ Aligned(layers.rFiles, layers.rStats, layers.rContents)
        /\ Aligned(sLayers.rFiles, sLayers.rStats, sLayers.rContents)
        /\ \A i \in CompleteIdx(calls) :
             /\ DOMAIN calls[i] = {"ev", "err", "files", "stats", "contents"}
             /\ Aligned(calls[i].files, calls[i].stats, calls[i].contents)

\* C12 witness: the reader's completion handler was handed two files whose
\* reads completed in the order opposite to the order they were matched in,
\* after the blocking reader had delivered two files as well.
C12_Witness ==
  /\ args.api = "readEachFileMatching"
  /\ Len(sLayers.rFiles) = 2
  /\ \E i \in CompleteIdx(calls) :
       /\ Len(calls[i].files) = 2
       /\ calls[i].files[1] = layers.mFiles[2]
       /\ calls[i].files[2] = layers.mFiles[1]

\* C13, as stated: on the tree root/{a.t, s/{b.t, c.l}} without failures,
\* eachFile started at the root has reported, once the walk is over, exactly
\* four entries to its callback: a.t, s, s/b.t and s/c.l.
C13_EachFileReportsFour ==
  (args.api = "eachFile" /\ Scenario /\ NoFailures /\ Quiescent) =>
    /\ ReportedNodes(calls) =
         {<<NameA>>, <<NameS>>, <<NameS, NameB>>, <<NameS, NameC>>}
    /\ Cardinality(EntryIdx(calls)) = 4

\* C13, amended: on that tree without failures, eachFile started at the root
\* has reported, once the walk is over, exactly three entries to its callback,
\* in some order: a.t, s/b.t and s/c.l; the directory s (like the root) is
\* walked but not reported.
C13_EachFileReportsThree ==
  (args.api = "eachFile" /\ Scenario /\ NoFailures /\ Quiescent) =>
    /\ ReportedNodes(calls) = {<<NameA>>, <<NameS, NameB>>, <<NameS, NameC>>}
    /\ Cardinality(EntryIdx(calls)) = 3
    /\ {NodeOf(f) : f \in Range(checkedFiles)} = fs.nodes

\* C13 witness: eachFile's walk of that tree is over, nothing having failed,
\* with s/c.l reported before a.t.
C13_Witness ==
  /\ args.api = "eachFile"
  /\ Scenario
  /\ NoFailures
  /\ Quiescent
  /\ \E i, j \in ReportIdx(calls) :
       i < j /\ NodeOf(calls[i].file) = <<NameS, NameC>> /\ NodeOf(calls[j].file) = <<NameA>>

\* A returned value that holds a list of paths and the list of their metadata.
Lists(files, stats) == [type |-> "lists", files |-> files, stats |-> stats]

\* C14: in blocking mode the return value delivers the result: when
\* eachFileSync or eachFileMatchingSync has returned, the value it returned
\* to its caller holds exactly the entries the wrapper accumulated, in order,
\* with their metadata.
C14_SyncReturnsMatched ==
  /\ (args.api = "eachFile" /\ sPc = "returned") =>
       sReturn = Lists(sLayers.efFiles, sLayers.efStats)
  /\ (args.api = "eachFileMatching" /\ sPc = "returned") =>
       sReturn = Lists(sLayers.mFiles, sLayers.mStats)

\* C15: in both modes the per-entry handler is invoked for a directory before
\* anything below it is visited: every visited path other than the root
\* comes after its parent in the order of handler invocations (the order of
\* checkedFiles), no stat or readdir is ever issued for a path whose parent
\* has not been handed to the handler, and in what eachFileOrDirectory and
\* eachFileOrDirectorySync report and hand to the completion handler the
\* parent precedes the child, in every delivery order.
C15_ParentBeforeChild ==
  LET Ordered(files) ==
        LET node == [i \in DOMAIN files |-> NodeOf(files[i])]
        IN  \A j \in DOMAIN files :
               node[j] # <<>> => \E i \in 1..(j - 1) : node[i] = Parent(node[j])
      LogOrdered(log) ==
        LET node == [i \in ReportIdx(log) |-> NodeOf(log[i].file)]
        IN  \A j \in ReportIdx(log) :
               node[j] # <<>> =>
                 \E i \in ReportIdx(log) : i < j /\ node[i] = Parent(node[j])
      HandedOver(files, paths) ==
        LET nodes == {NodeOf(f) : f \in Range(files)}
        IN  \A p \in paths : NodeOf(p) # <<>> => Parent(NodeOf(p)) \in nodes
  IN  /\ Ordered(checkedFiles)
      /\ Ordered(sCheckedFiles)
      /\ HandedOver(checkedFiles, {o.path : o \in EngineOps \cup delivered})
      /\ HandedOver(sCheckedFiles, Range(sStack))
      /\ args.api = "eachFileOrDirectory" =>
           /\ LogOrdered(calls)
           /\ LogOrdered(sCalls)
           /\ \A c \in CompleteIdx(calls) : Ordered(calls[c].files)

\* C15 witness: both walks of the five-entry tree are over; in callback mode
\* the nested directory's entries were reported before a.t and the completion
\* handler was handed all five paths.
C15_Witness ==
  /\ args.api = "eachFileOrDirectory"
  /\ Scenario
  /\ Len(sCheckedFiles) = 5
  /\ sPc = "returned"
  /\ \E c \in CompleteIdx(calls) :
       /\ Len(calls[c].files) = 5
       /\ NodeOf(calls[c].files[5]) = <<NameA>>

C17_CounterIsInFlight ==
  /\ [](filesToCheck = Cardinality(EngineOps) /\ filesToCheck >= 0)
  /\ [][LET isEngine(o) == o.op \in {"stat", "readdir"}
            issued == {o \in inflight' \ inflight : isEngine(o)}
            done   == {o \in delivered' \ delivered : isEngine(o)}
        IN  /\ filesToCheck' = filesToCheck + Cardinality(issued) - Cardinality(done)
            /\ issued \cap delivered = {}
            /\ done \subseteq inflight]_vars

\* C17 witness: a probe and a listing are awaited at the same time, after
\* some results have been delivered, and the counter stands at 2.
C17_Witness ==
  /\ filesToCheck = 2
  /\ Cardinality(delivered) >= 3
  /\ \E o, q \in inflight : o.op = "stat" /\ q.op = "readdir"

\* The readFile operations among a set of operations.
Reads(ops) == {o \in ops : o.op = "readFile"}

\* C18: when readFile fails for a file readEachFileMatching matched, the
\* caller's callback is invoked exactly once with that error, the file is in
\* none of the files, stats and contents lists and is never delivered as an
\* entry, and its read is not issued again; every other matched file still
\* has its read issued, and once that read's result is delivered the file is
\* delivered and listed exactly once; when nothing is awaited any more every
\* matched file's read has been delivered.
C18_ReadFailureIsolated ==
  args.api = "readEachFileMatching" =>
    /\ \A o \in Reads(delivered) :
         /\ o \notin inflight
         /\ IF ReadFileOK(o.path)
            THEN /\ Cardinality({i \in DOMAIN layers.rFiles : layers.rFiles[i] = o.path}) = 1
                 /\ Cardinality({i \in ReportIdx(calls) : calls[i].file = o.path}) = 1
            ELSE /\ Cardinality({i \in ErrorIdx(calls) :
                                   calls[i].err = IOError("readFile", o.path)}) = 1
                 /\ o.path \notin Range(layers.rFiles)
                 /\ Stat(NodeOf(o.path)) \notin Range(layers.rStats)
                 /\ Len(layers.rStats) = Len(layers.rFiles)
                 /\ Len(layers.rContents) = Len(layers.rFiles)
                 /\ o.path \notin ReportedPaths(calls)
    /\ \A i \in DOMAIN layers.mFiles :
         Cardinality({o \in Reads(inflight \cup delivered) : o.path = layers.mFiles[i]}) = 1
    /\ Quiescent =>
         \A i \in DOMAIN layers.mFiles :
            \E o \in Reads(delivered) : o.path = layers.mFiles[i]

\* C18 witness: the reader's walk is over; the read of one matched file
\* failed and was reported, and another matched file, whose read was issued
\* later, has been read and delivered.
C18_Witness ==
  /\ args.api = "readEachFileMatching"
  /\ Quiescent
  /\ Len(layers.mFiles) = 2
  /\ ~ReadFileOK(layers.mFiles[1])
  /\ layers.rFiles = <<layers.mFiles[2]>>
  /\ Cardinality(ErrorIdx(calls)) = 1

\* The separators a path ends in.
TrailingSeps(dir) ==
  Cardinality({k \in 1..Len(dir) : \A j \in k..Len(dir) : dir[j] = SEP})

\* path is parent, one separator, child: it ends in the child name, a
\* separator stands right before the name, what stands before that separator
\* is the parent without its trailing separators, and so is no separator.
JoinedByOne(dir, file, path) ==
  LET k == Len(path) - Len(file)
  IN  /\ k >= 1
      /\ SubSeq(path, k + 1, Len(path)) = file
      /\ path[k] = SEP
      /\ SubSeq(path, 1, k - 1) = SubSeq(dir, 1, Len(dir) - TrailingSeps(dir))
      /\ k >= 2 => path[k - 1] # SEP

\* C20: for every parent path, with or without one or more trailing
\* separators, and every child name, the child path fullFilePath computes (in
\* either mode) has exactly one separator between the parent part and the
\* child name: never two adjacent separators at the join.
C20_OneSeparatorAtJoin ==
  /\ join.path # Pending => JoinedByOne(join.dir, join.file, join.path)
  /\ join.pathSync # Pending => JoinedByOne(join.dir, join.file, join.pathSync)

\* C19: sessions are independent. When one program runs two traversals whose
\* deliveries interleave, a step of one session leaves the other session's
\* counter and lists as they were; each session's counter counts its own
\* awaited operations only and its lists hold only paths under its own root;
\* and each session reports and completes as a session running alone does:
\* the completion handler is invoked at most once, with the session's own
\* lists and nothing awaited, a finished walk has reported every entry that
\* no failure cuts off exactly once, and without failures it has completed.
C19_SessionsIndependent ==
  /\ [][\A s, t \in SessionIds :
          (s # t /\ sessions'[s] # sessions[s]) =>
             /\ sessions'[t] = sessions[t]
             /\ counters'[filesToCheckOf(t)] = counters[filesToCheckOf(t)]]_vars
  /\ [](\A s \in SessionIds :
          LET E == sessions[s]
              root == Directory(SessionDirectory(s))
          IN  /\ counters[filesToCheckOf(s)] = Cardinality(E.inflight)
              /\ \A f \in Range(E.checkedFiles) : Head(f) = Head(root)
              /\ ReportedPaths(E.calls) = Range(E.checkedFiles)
              /\ Cardinality(CompleteIdx(E.calls)) <= 1
              /\ \A c \in CompleteIdx(E.calls) :
                   /\ E.inflight = {}
                   /\ E.calls[c].files = E.checkedFiles
                   /\ E.calls[c].stats = E.checkedStats
              /\ (E.pc = "running" /\ E.inflight = {}) =>
                   /\ ReportedNodes(E.calls) = Survivors
                   /\ ReportedOnce(E.calls)
                   /\ NoFailures => CompleteIdx(E.calls) # {})

\* C19 witness: the first session has completed its walk of the five-entry
\* tree while the second, started before that, has visited three entries and
\* still awaits results.
C19_Witness ==
  /\ Scenario
  /\ CompleteIdx(sessions["s1"].calls) # {}
  /\ Len(sessions["s1"].checkedFiles) = 5
  /\ sessions["s2"].pc = "running"
  /\ Len(sessions["s2"].checkedFiles) = 3
  /\ sessions["s2"].inflight # {}

====
